---- MODULE Spec2Model ----
(***************************************************************************)
(* The o5m writer of vadeen_osm (src/osm_io/o5m/writer.rs): the varint     *)
(* encoders, the O5mEncoder (string reference table and delta state) and   *)
(* O5mWriter::write, together with the mirror decoder the specification    *)
(* describes.                                                              *)
(*                                                                         *)
(* A 64-bit word (u64, or i64 in two's complement) is a tuple of four      *)
(* 16-bit limbs, least significant first, so that the widths of the Rust   *)
(* integers are kept.  Bytes are numbers in 0..255, a Vec<u8> is a         *)
(* sequence of them.                                                       *)
(***************************************************************************)
EXTENDS Integers, Sequences, FiniteSets, TLC

VARIABLES
    encoder,    \* O5mWriter.encoder: [string_table, delta]
    inner,      \* O5mWriter.inner: the bytes the sink has received
    pc,         \* position of the running write() call, "idle" outside of one
    osm,        \* the Osm argument of the running write() call
    idx,        \* index of the for loop of write() over nodes / ways / relations
    bytes,      \* the local `bytes` of write_bounding_box / write_node / write_way / write_relation
    start,      \* Len(inner) when the running write() call was entered
    writes,     \* number of write() calls made on this writer
    hist,       \* the encoder methods called directly, with their results
    arg,        \* argument of the last call of a free function
    res         \* its result

vars == <<encoder, inner, pc, osm, idx, bytes, start, writes, hist, arg, res>>

(***************************************************************************)
(* 64-bit words                                                            *)
(***************************************************************************)
LimbBase == 2 ^ 16
LimbMax == LimbBase - 1
LimbSign == 2 ^ 15

Zero64 == <<0, 0, 0, 0>>

\* `n as u64` for a small non-negative n (a usize length, a version, a uid)
U64(n) == <<n % LimbBase, n \div LimbBase, 0, 0>>

\* bitwise complement of a word
Not64(w) == <<LimbMax - w[1], LimbMax - w[2], LimbMax - w[3], LimbMax - w[4]>>

\* `n as i64` / `n.into()` for n in the i32 range: sign extension
I64(n) == IF n >= 0 THEN U64(n) ELSE Not64(U64(-(n + 1)))

IsNeg64(w) == w[4] >= LimbSign

\* w >> k for 0 < k < 16 (logical)
Shr64(w, k) ==
    LET lo == 2 ^ k
        hi == 2 ^ (16 - k)
    IN  << (w[1] \div lo) + (w[2] % lo) * hi,
           (w[2] \div lo) + (w[3] % lo) * hi,
           (w[3] \div lo) + (w[4] % lo) * hi,
           (w[4] \div lo) >>

\* w << k for 0 < k < 16, the bits shifted out dropped
Shl64(w, k) ==
    LET lo == 2 ^ (16 - k)
        hi == 2 ^ k
    IN  << (w[1] % lo) * hi,
           (w[2] % lo) * hi + (w[1] \div lo),
           (w[3] % lo) * hi + (w[2] \div lo),
           (w[4] % lo) * hi + (w[3] \div lo) >>

\* a + b and a - b modulo 2^64
Add64(a, b) ==
    LET s1 == a[1] + b[1]
        s2 == a[2] + b[2] + (s1 \div LimbBase)
        s3 == a[3] + b[3] + (s2 \div LimbBase)
        s4 == a[4] + b[4] + (s3 \div LimbBase)
    IN  <<s1 % LimbBase, s2 % LimbBase, s3 % LimbBase, s4 % LimbBase>>

Sub64(a, b) == Add64(Add64(a, Not64(b)), U64(1))

\* bit k (0..63) of a word, and its i-th 7-bit group (i = 1 is the lowest)
Bit64(w, k) == (w[(k \div 16) + 1] \div (2 ^ (k % 16))) % 2

Group7(w, i) ==
    LET b(j) == IF 7 * (i - 1) + j <= 63 THEN Bit64(w, 7 * (i - 1) + j) ELSE 0
    IN  b(0) + 2 * b(1) + 4 * b(2) + 8 * b(3) + 16 * b(4) + 32 * b(5) + 64 * b(6)

\* the value of a word that fits 0 .. 2^31 - 1 (a length, a table position)
IsSmall64(w) == w[3] = 0 /\ w[4] = 0 /\ w[2] < LimbSign
Nat64(w) == w[2] * LimbBase + w[1]

I64_MIN == <<0, 0, 0, LimbSign>>
I64_MAX == <<LimbMax, LimbMax, LimbMax, LimbSign - 1>>

(***************************************************************************)
(* Varints (writer.rs, uvarint_to_bytes and varint_to_bytes)               *)
(***************************************************************************)
Gt64(w, n) == w[1] > n \/ w[2] # 0 \/ w[3] # 0 \/ w[4] # 0    \* w > n for n < 2^16

\* mutant: a zero byte for the value 0
RECURSIVE uvarint_to_bytes_mut(_)
uvarint_to_bytes_mut(value) ==
    IF Gt64(value, 127)
    THEN <<(value[1] % 128) + 128>> \o uvarint_to_bytes_mut(Shr64(value, 7))
    ELSE <<value[1]>>

RECURSIVE uvarint_to_bytes(_)
uvarint_to_bytes(value) ==
    IF Gt64(value, 127)
    THEN <<(value[1] % 128) + 128>> \o uvarint_to_bytes(Shr64(value, 7))
    ELSE IF Gt64(value, 0) THEN <<value[1]>> ELSE <<>>

\* `-value` overflows for i64::MIN: a panic when the build checks overflow,
\* a wrap to i64::MIN otherwise (and then `- 1` wraps to i64::MAX)
varint_overflows(value) == value = I64_MIN

varint_to_bytes(value) ==
    LET sign_bit == IF IsNeg64(value) THEN 1 ELSE 0
        mag == IF IsNeg64(value) THEN Sub64(Sub64(Zero64, value), U64(1)) ELSE value
        least_significant == ((mag[1] * 2) % 128) + sign_bit
    IN  IF Gt64(mag, 63)
        THEN <<least_significant + 128>> \o uvarint_to_bytes(Shr64(mag, 6))
        ELSE <<least_significant>>

(***************************************************************************)
(* The varint decoders of the specification (4.1)                          *)
(***************************************************************************)
Failed == [ok |-> FALSE]

\* index of the first byte at or after pos without the continuation bit, 0 if none
RECURSIVE VarintEnd(_, _)
VarintEnd(bs, pos) ==
    IF pos > Len(bs) THEN 0
    ELSE IF bs[pos] < 128 THEN pos
    ELSE VarintEnd(bs, pos + 1)

\* the 7-bit groups of bs[pos..e], least significant first
RECURSIVE GroupsValue(_, _, _)
GroupsValue(bs, pos, e) ==
    IF pos > e THEN Zero64
    ELSE Add64(Shl64(GroupsValue(bs, pos + 1, e), 7), U64(bs[pos] % 128))

\* decode_unsigned: no byte left is the value 0 (its encoding is empty); a
\* continuation bit on the last available byte is TruncatedVarInt
decode_unsigned(bs, pos) ==
    IF pos > Len(bs) THEN [ok |-> TRUE, val |-> Zero64, next |-> pos]
    ELSE LET e == VarintEnd(bs, pos)
         IN  IF e = 0 THEN Failed
             ELSE [ok |-> TRUE, val |-> GroupsValue(bs, pos, e), next |-> e + 1]

\* decode_signed: sign in the low bit of the first byte, 6 data bits in the
\* first byte, 7 in every following one; a set sign bit is -magnitude - 1
decode_signed(bs, pos) ==
    IF pos > Len(bs) THEN Failed
    ELSE LET b == bs[pos]
             data == (b \div 2) % 64
             rest == IF b < 128 THEN [ok |-> TRUE, val |-> Zero64, next |-> pos + 1]
                     ELSE IF pos + 1 > Len(bs) THEN Failed
                     ELSE decode_unsigned(bs, pos + 1)
         IN  IF ~rest.ok THEN Failed
             ELSE LET mag == Add64(Shl64(rest.val, 6), U64(data))
                  IN  [ok |-> TRUE,
                       val |-> IF b % 2 = 1 THEN Not64(mag) ELSE mag,
                       next |-> rest.next]

(***************************************************************************)
(* Delta state (o5m::DeltaState, specification 4.2)                        *)
(***************************************************************************)
Delta == {"Id", "Lat", "Lon", "Timestamp", "ChangeSet", "WayRef",
          "RelNodeRef", "RelWayRef", "RelRelRef"}

DeltaState_new == [c \in Delta |-> Zero64]

\* DeltaState::encode: the difference to the category's previous value, which
\* becomes the value given
DeltaState_encode(state, category, value) ==
    [delta |-> Sub64(value, state[category]),
     state |-> [state EXCEPT ![category] = value]]

(***************************************************************************)
(* O5mEncoder.  Every method is an operator from the encoder and the        *)
(* arguments to [bytes: the Vec<u8> returned, enc: the encoder afterwards]. *)
(***************************************************************************)
\* the limits of the o5m string reference table: entries, and bytes of a string
StringTableCap == 15000
MaxTokenLen == 250

O5mEncoder_new == [string_table |-> <<>>, delta |-> DeltaState_new]

\* mutant: the deltas survive the reset
O5mEncoder_reset_mut(e) == [e EXCEPT !.string_table = <<>>]

O5mEncoder_reset(e) ==
    [e EXCEPT !.string_table = <<>>, !.delta = DeltaState_new]

\* self.delta.encode(category, value) on the encoder
EncDelta(e, category, value) ==
    LET r == DeltaState_encode(e.delta, category, value)
    IN  [delta |-> r.delta, enc |-> [e EXCEPT !.delta = r.state]]

\* string_table.iter().position(|b| b == &bytes), counted from 1; 0 for None
Position(table, bs) ==
    LET hits == {p \in 1..Len(table) : table[p] = bs}
    IN  IF hits = {} THEN 0
        ELSE CHOOSE p \in hits : \A q \in hits : p <= q

\* mutant: a hit moves the entry to the front of the table
string_reference_table_mut(e, bs) ==
    LET pos == Position(e.string_table, bs)
    IN  IF pos # 0
        THEN [bytes |-> uvarint_to_bytes(U64(1 + (pos - 1))),
              enc |-> [e EXCEPT !.string_table =
                          <<bs>> \o SubSeq(@, 1, pos - 1) \o SubSeq(@, pos + 1, Len(@))]]
        ELSE [bytes |-> bs,
              enc |-> [e EXCEPT !.string_table = <<bs>> \o @]]

string_reference_table(e, bs) ==
    LET pos == Position(e.string_table, bs)
    IN  IF pos # 0
        THEN [bytes |-> uvarint_to_bytes(U64(1 + (pos - 1))), enc |-> e]
        ELSE [bytes |-> bs,
              enc |-> [e EXCEPT !.string_table = <<bs>> \o @]]

\* mutant: the limit is applied to the key alone
string_pair_to_bytes_mut(e, key, value) ==
    LET bs == <<0>> \o key \o <<0>> \o value \o <<0>>
    IN  IF Len(key) > MaxTokenLen
        THEN [bytes |-> bs, enc |-> e]
        ELSE string_reference_table(e, bs)

string_pair_to_bytes(e, key, value) ==
    LET bs == <<0>> \o key \o <<0>> \o value \o <<0>>
    IN  IF Len(key) + Len(value) > MaxTokenLen
        THEN [bytes |-> bs, enc |-> e]
        ELSE string_reference_table(e, bs)

user_to_bytes(e, uid, username) ==
    string_reference_table(e, <<0>> \o uvarint_to_bytes(U64(uid)) \o <<0>> \o username \o <<0>>)

\* the loop `for tag in &meta.tags` of node_to_bytes, way_to_bytes and
\* relation_to_bytes, from tag k on
RECURSIVE tags_to_bytes(_, _, _)
tags_to_bytes(e, tags, k) ==
    IF k > Len(tags) THEN [bytes |-> <<>>, enc |-> e]
    ELSE LET t == string_pair_to_bytes(e, tags[k].key, tags[k].value)
             r == tags_to_bytes(t.enc, tags, k + 1)
         IN  [bytes |-> t.bytes \o r.bytes, enc |-> r.enc]

\* `x as i32` of an i64, then `.into()` an i64 again
AsI32(w) ==
    LET ext == IF w[2] >= LimbSign THEN LimbMax ELSE 0
    IN  <<w[1], w[2], ext, ext>>

delta_coordinate(e, coordinate) ==
    LET lat == EncDelta(e, "Lat", I64(coordinate.lat))
        lon == EncDelta(lat.enc, "Lon", I64(coordinate.lon))
    IN  [lat |-> AsI32(lat.delta), lon |-> AsI32(lon.delta), enc |-> lon.enc]

\* mutant: latitude written before longitude
node_to_bytes_mut(e, node) ==
    LET delta_id == EncDelta(e, "Id", I64(node.id))
        delta_coordinate_ == delta_coordinate(delta_id.enc, node.coordinate)
        tags == tags_to_bytes(delta_coordinate_.enc, node.meta.tags, 1)
    IN  [bytes |-> varint_to_bytes(delta_id.delta)
                   \o uvarint_to_bytes(U64(node.meta.version))
                   \o <<0>>
                   \o varint_to_bytes(delta_coordinate_.lat)
                   \o varint_to_bytes(delta_coordinate_.lon)
                   \o tags.bytes,
         enc |-> tags.enc]

node_to_bytes(e, node) ==
    LET delta_id == EncDelta(e, "Id", I64(node.id))
        delta_coordinate_ == delta_coordinate(delta_id.enc, node.coordinate)
        tags == tags_to_bytes(delta_coordinate_.enc, node.meta.tags, 1)
    IN  [bytes |-> varint_to_bytes(delta_id.delta)
                   \o uvarint_to_bytes(U64(node.meta.version))
                   \o <<0>>
                   \o varint_to_bytes(delta_coordinate_.lon)
                   \o varint_to_bytes(delta_coordinate_.lat)
                   \o tags.bytes,
         enc |-> tags.enc]

RECURSIVE way_refs_to_bytes(_, _, _)
way_refs_to_bytes(e, refs, k) ==
    IF k > Len(refs) THEN [bytes |-> <<>>, enc |-> e]
    ELSE LET d == EncDelta(e, "WayRef", I64(refs[k]))
             r == way_refs_to_bytes(d.enc, refs, k + 1)
         IN  [bytes |-> varint_to_bytes(d.delta) \o r.bytes, enc |-> r.enc]

\* mutant: the refs of every way are delta-coded from 0
way_to_bytes_mut(e, way) ==
    LET delta_id == EncDelta(e, "Id", I64(way.id))
        ref_bytes == way_refs_to_bytes([delta_id.enc EXCEPT !.delta["WayRef"] = Zero64],
                                       way.refs, 1)
        tags == tags_to_bytes(ref_bytes.enc, way.meta.tags, 1)
    IN  [bytes |-> varint_to_bytes(delta_id.delta)
                   \o uvarint_to_bytes(U64(way.meta.version))
                   \o <<0>>
                   \o uvarint_to_bytes(U64(Len(ref_bytes.bytes)))
                   \o ref_bytes.bytes
                   \o tags.bytes,
         enc |-> tags.enc]

way_to_bytes(e, way) ==
    LET delta_id == EncDelta(e, "Id", I64(way.id))
        ref_bytes == way_refs_to_bytes(delta_id.enc, way.refs, 1)
        tags == tags_to_bytes(ref_bytes.enc, way.meta.tags, 1)
    IN  [bytes |-> varint_to_bytes(delta_id.delta)
                   \o uvarint_to_bytes(U64(way.meta.version))
                   \o <<0>>
                   \o uvarint_to_bytes(U64(Len(ref_bytes.bytes)))
                   \o ref_bytes.bytes
                   \o tags.bytes,
         enc |-> tags.enc]

\* member_type: the ASCII digit "0", "1" or "2"
member_type(member) ==
    CASE member.kind = "Node" -> <<48>>
      [] member.kind = "Way" -> <<49>>
      [] member.kind = "Relation" -> <<50>>

\* mutant: the members of all kinds share one running value
delta_rel_member_mut(e, member) == EncDelta(e, "RelNodeRef", I64(member.id))

delta_rel_member(e, member) ==
    CASE member.kind = "Node" -> EncDelta(e, "RelNodeRef", I64(member.id))
      [] member.kind = "Way" -> EncDelta(e, "RelWayRef", I64(member.id))
      [] member.kind = "Relation" -> EncDelta(e, "RelRelRef", I64(member.id))

RECURSIVE rel_members_to_bytes(_, _, _)
rel_members_to_bytes(e, members, k) ==
    IF k > Len(members) THEN [bytes |-> <<>>, enc |-> e]
    ELSE LET m == members[k]
             d == delta_rel_member(e, m)
             r == rel_members_to_bytes(d.enc, members, k + 1)
         IN  [bytes |-> varint_to_bytes(d.delta) \o <<0>> \o member_type(m)
                        \o m.role \o <<0>> \o r.bytes,
              enc |-> r.enc]

relation_to_bytes(e, rel) ==
    LET delta_id == EncDelta(e, "Id", I64(rel.id))
        mem_bytes == rel_members_to_bytes(delta_id.enc, rel.members, 1)
        tags == tags_to_bytes(mem_bytes.enc, rel.meta.tags, 1)
    IN  [bytes |-> varint_to_bytes(delta_id.delta)
                   \o uvarint_to_bytes(U64(rel.meta.version))
                   \o <<0>>
                   \o uvarint_to_bytes(U64(Len(mem_bytes.bytes)))
                   \o mem_bytes.bytes
                   \o tags.bytes,
         enc |-> tags.enc]

(***************************************************************************)
(* The inputs: strings as UTF-8 bytes, and the entities built from them    *)
(***************************************************************************)
S_oneway == <<111, 110, 101, 119, 97, 121>>
S_yes == <<121, 101, 115>>
S_atm == <<97, 116, 109>>
S_no == <<110, 111>>
S_highway == <<104, 105, 103, 104, 119, 97, 121>>
S_secondary == <<115, 101, 99, 111, 110, 100, 97, 114, 121>>
S_type == <<116, 121, 112, 101>>
S_multipolygon == <<109, 117, 108, 116, 105, 112, 111, 108, 121, 103, 111, 110>>
S_outer == <<111, 117, 116, 101, 114>>
S_inner == <<105, 110, 110, 101, 114>>
S_John == <<74, 111, 104, 110>>
S_empty == <<>>
S_y == <<121>>
\* a key of exactly 250 bytes: with the empty value the pair is within the
\* limit of string_pair_to_bytes, with a one-byte value it is over it
S_long == [k \in 1..250 |-> 97]

Tag(key, value) == [key |-> key, value |-> value]
None == <<>>
Some(x) == <<x>>
Author(created, change_set, uid, user) ==
    [created |-> created, change_set |-> change_set, uid |-> uid, user |-> user]
Meta(tags, version, author) == [tags |-> tags, version |-> version, author |-> author]
Coordinate(lat, lon) == [lat |-> lat, lon |-> lon]
Node(id, coordinate, meta) == [id |-> id, coordinate |-> coordinate, meta |-> meta]
Way(id, refs, meta) == [id |-> id, refs |-> refs, meta |-> meta]
Member(kind, id, role) == [kind |-> kind, id |-> id, role |-> role]
Relation(id, members, meta) == [id |-> id, members |-> members, meta |-> meta]

\* the node of tests::write_node with version 0 (the encoding of no version)
\* and with version 1 (the test's)
NodeA0 == Node(64, Coordinate(-65, 4), Meta(<<Tag(S_oneway, S_yes)>>, 0, None))
NodeA1 == Node(64, Coordinate(-65, 4), Meta(<<Tag(S_oneway, S_yes)>>, 1, None))
NodeB == Node(63, Coordinate(-64, 70),
              Meta(<<Tag(S_atm, S_no), Tag(S_oneway, S_yes)>>, 2,
                   Some(Author(1500, 7, 1020, S_John))))
NodeC == Node(200, Coordinate(8192, -8193),
              Meta(<<Tag(S_long, S_y), Tag(S_long, S_y)>>, 200, None))

\* the way of tests::write_way
WayA == Way(64, <<64, 65>>, Meta(<<Tag(S_highway, S_secondary)>>, 1, None))
WayB == Way(66, <<65, 3>>, Meta(<<Tag(S_highway, S_secondary), Tag(S_oneway, S_yes)>>, 1, None))
WayC == Way(-5, <<>>, Meta(<<>>, 0, None))

\* the relation of tests::relation_bytes
RelationA == Relation(64, <<Member("Way", 4, S_outer), Member("Way", 8, S_inner)>>,
                      Meta(<<Tag(S_type, S_multipolygon)>>, 1, None))
RelationB == Relation(65, <<Member("Node", 4, S_outer), Member("Way", 9, S_outer),
                            Member("Relation", 64, S_empty), Member("Node", 6, S_outer)>>,
                      Meta(<<Tag(S_type, S_multipolygon), Tag(S_long, S_y)>>, 1, None))
RelationC == Relation(70, <<>>, Meta(<<Tag(S_oneway, S_yes)>>, 3, None))

\* two nodes at longitudes -180 and 180 degrees, in units of 100 nanodegrees
NodeWest == Node(1, Coordinate(-900000000, -1800000000), Meta(<<>>, 0, None))
NodeEast == Node(2, Coordinate(900000000, 1800000000), Meta(<<>>, 0, None))

Nodes == {NodeA0, NodeA1, NodeB, NodeC, NodeWest, NodeEast}
Ways == {WayA, WayB, WayC}
Relations == {RelationA, RelationB, RelationC}
Pairs == {<<S_oneway, S_yes>>, <<S_atm, S_no>>, <<S_long, S_empty>>, <<S_long, S_y>>}
Users == {<<1020, S_John>>, <<0, S_empty>>, <<7, S_long>>}

(***************************************************************************)
(* The encoder's methods called directly, as the unit tests do, on the     *)
(* encoder of a writer that has not written yet                            *)
(***************************************************************************)
MaxOps == 3

Direct == pc = "idle" /\ writes = 0 /\ Len(hist) < MaxOps

Call(op, a, r) ==
    /\ encoder' = r.enc
    /\ hist' = Append(hist, [op |-> op, arg |-> a, ret |-> r.bytes])
    /\ UNCHANGED <<inner, pc, osm, idx, bytes, start, writes, arg, res>>

EncNode(node) ==
    Direct /\ Call("node_to_bytes", <<node>>, node_to_bytes(encoder, node))

EncWay(way) ==
    Direct /\ Call("way_to_bytes", <<way>>, way_to_bytes(encoder, way))

EncRelation(rel) ==
    Direct /\ Call("relation_to_bytes", <<rel>>, relation_to_bytes(encoder, rel))

EncStringPair(key, value) ==
    Direct /\ Call("string_pair_to_bytes", <<key, value>>,
                   string_pair_to_bytes(encoder, key, value))

EncUser(uid, username) ==
    Direct /\ Call("user_to_bytes", <<uid, username>>,
                   user_to_bytes(encoder, uid, username))

EncReset ==
    Direct /\ Call("reset", <<>>, [bytes |-> <<>>, enc |-> O5mEncoder_reset(encoder)])

(***************************************************************************)
(* The free functions called on their own                                  *)
(***************************************************************************)
\* limbs that put a word on both sides of every length boundary of the encodings
SampleLimb0 == {0, 1, 4, 5, 63, 64, 65, 127, 128, 323, 8191, 8192, 16383, 16384,
                32767, 32768, 65471, 65472, 65534, 65535}
SampleLimb == {0, 32767, 32768, 65535}
SampleWords == {<<a, b, c, d>> : a \in SampleLimb0, b \in {0, 65535},
                                 c \in {0, 65535}, d \in SampleLimb}

\* the call did not return: no byte sequence holds -1
PANIC == <<-1>>
NoCall == [fn |-> "none"]

InitVarint ==
    /\ encoder = O5mEncoder_new
    /\ inner = <<>> /\ pc = "idle" /\ osm = <<>> /\ idx = 0 /\ bytes = <<>>
    /\ start = 0 /\ writes = 0 /\ hist = <<>>
    /\ arg = NoCall /\ res = <<>>

CallUvarint(value) ==
    /\ arg' = [fn |-> "uvarint_to_bytes", value |-> value]
    /\ res' = uvarint_to_bytes(value)
    /\ UNCHANGED <<encoder, inner, pc, osm, idx, bytes, start, writes, hist>>

\* overflow_checks: whether the build panics on integer overflow
CallVarint(value, overflow_checks) ==
    /\ arg' = [fn |-> "varint_to_bytes", value |-> value,
               overflow_checks |-> overflow_checks]
    /\ res' = IF overflow_checks /\ varint_overflows(value) THEN PANIC
              ELSE varint_to_bytes(value)
    /\ UNCHANGED <<encoder, inner, pc, osm, idx, bytes, start, writes, hist>>

NextVarint ==
    \/ \E value \in SampleWords : CallUvarint(value)
    \/ \E value \in SampleWords, overflow_checks \in BOOLEAN :
           CallVarint(value, overflow_checks)

SpecVarint == InitVarint /\ [][NextVarint]_vars

\* C7: for every i64 value v, varint_to_bytes(v) has at least one byte and
\* decode_signed of it returns v (i64::MIN, i64::MAX, 0 and -1 included).
C7_SignedRoundTrip ==
    arg.fn = "varint_to_bytes" =>
        /\ res # PANIC
        /\ Len(res) >= 1
        /\ decode_signed(res, 1) = [ok |-> TRUE, val |-> arg.value, next |-> Len(res) + 1]

\* C8: for every u64 value v, uvarint_to_bytes(v) is the 7-bit groups of v,
\* least significant first, without a zero group at the end, the high bit set
\* on every byte but the last; it is empty for 0; decode_unsigned returns v.
C8_UnsignedGroups ==
    arg.fn = "uvarint_to_bytes" =>
        /\ \A k \in 1..Len(res) :
              /\ res[k] % 128 = Group7(arg.value, k)
              /\ (res[k] >= 128) = (k < Len(res))
        /\ \A k \in (Len(res) + 1)..10 : Group7(arg.value, k) = 0
        /\ Len(res) > 0 => res[Len(res)] # 0
        /\ (arg.value = Zero64) = (res = <<>>)
        /\ decode_unsigned(res, 1) = [ok |-> TRUE, val |-> arg.value, next |-> Len(res) + 1]

C7_NoCheckRoundTrip ==
    (arg.fn = "varint_to_bytes" /\ ~(arg.overflow_checks /\ arg.value = I64_MIN)) =>
        /\ Len(res) >= 1
        /\ decode_signed(res, 1) = [ok |-> TRUE, val |-> arg.value, next |-> Len(res) + 1]

C8_Witness ==
    /\ arg.fn = "uvarint_to_bytes"
    /\ arg.value = U64(16384)
    /\ res = <<128, 128, 1>>

(***************************************************************************)
(* The writer                                                              *)
(***************************************************************************)
O5M_RESET == 255
O5M_HEADER == 224
O5M_BOUNDING_BOX == 219
O5M_NODE == 16
O5M_WAY == 17
O5M_RELATION == 18
O5M_EOF == 254
\* the fixed header payload: its length 4 and "o5m2"
O5M_HEADER_DATA == <<4, 111, 53, 109, 50>>

Boundary(min, max) == [min |-> min, max |-> max]
Osm(boundary, nodes, ways, relations) ==
    [boundary |-> boundary, nodes |-> nodes, ways |-> ways, relations |-> relations]

BoundaryA == Boundary(Coordinate(-70, -3), Coordinate(64, 8192))

MaxLen == 2
MaxEntities == 3
MaxWrites == 1

SeqsUpTo(S, n) == UNION {[1..k -> S] : k \in 0..n}

MapNodes == {NodeA0, NodeA1, NodeB}
MapWays == {WayA, WayB, WayC}
MapRelations == {RelationA, RelationB}

Maps ==
    {Osm(b, ns, ws, rs) :
        b \in {None, Some(BoundaryA)},
        ns \in SeqsUpTo(MapNodes, MaxLen),
        ws \in SeqsUpTo(MapWays, MaxLen),
        rs \in SeqsUpTo(MapRelations, MaxLen)}

\* O5mWriter::new over an empty sink
Init ==
    /\ encoder = O5mEncoder_new
    /\ inner = <<>> /\ pc = "idle" /\ osm = <<>> /\ idx = 0 /\ bytes = <<>>
    /\ start = 0 /\ writes = 0 /\ hist = <<>>
    /\ arg = NoCall /\ res = <<>>

\* self.inner.write_all(bs)
write_all(bs) == inner' = inner \o bs

\* mutant: the reset byte is written, the encoder keeps its state
O5mWriter_reset_mut ==
    /\ write_all(<<O5M_RESET>>)
    /\ encoder' = encoder

\* O5mWriter::reset
O5mWriter_reset ==
    /\ write_all(<<O5M_RESET>>)
    /\ encoder' = O5mEncoder_reset(encoder)

\* where the loop over a collection goes: into its body at index k, or on
Loop(collection, k, body, after) == IF k <= Len(collection) THEN body ELSE after

\* write() is called on a writer that is not inside a call
Write(m) ==
    /\ pc \in {"idle", "done"}
    /\ hist = <<>>
    /\ writes < MaxWrites
    /\ Len(m.nodes) + Len(m.ways) + Len(m.relations) <= MaxEntities
    /\ pc' = "reset_header"
    /\ osm' = m
    /\ start' = Len(inner)
    /\ writes' = writes + 1
    /\ idx' = 0
    /\ bytes' = <<>>
    /\ UNCHANGED <<encoder, inner, hist, arg, res>>

Write_ResetHeader ==
    /\ pc = "reset_header"
    /\ O5mWriter_reset
    /\ pc' = "header"
    /\ UNCHANGED <<osm, idx, bytes, start, writes, hist, arg, res>>

Write_Header ==
    /\ pc = "header"
    /\ write_all(<<O5M_HEADER>>)
    /\ pc' = "header_data"
    /\ UNCHANGED <<encoder, osm, idx, bytes, start, writes, hist, arg, res>>

Write_HeaderData ==
    /\ pc = "header_data"
    /\ write_all(O5M_HEADER_DATA)
    /\ pc' = IF osm.boundary # None THEN "bounding_box" ELSE "reset_nodes"
    /\ UNCHANGED <<encoder, osm, idx, bytes, start, writes, hist, arg, res>>

\* write_bounding_box: the body is built, then the type byte is written
WriteBoundingBox_Type ==
    /\ pc = "bounding_box"
    /\ LET boundary == osm.boundary[1]
       IN  bytes' = varint_to_bytes(I64(boundary.min.lon))
                    \o varint_to_bytes(I64(boundary.min.lat))
                    \o varint_to_bytes(I64(boundary.max.lon))
                    \o varint_to_bytes(I64(boundary.max.lat))
    /\ write_all(<<O5M_BOUNDING_BOX>>)
    /\ pc' = "bounding_box_len"
    /\ UNCHANGED <<encoder, osm, idx, start, writes, hist, arg, res>>

WriteBoundingBox_Len ==
    /\ pc = "bounding_box_len"
    /\ write_all(uvarint_to_bytes(U64(Len(bytes))))
    /\ pc' = "bounding_box_body"
    /\ UNCHANGED <<encoder, osm, idx, bytes, start, writes, hist, arg, res>>

WriteBoundingBox_Body ==
    /\ pc = "bounding_box_body"
    /\ write_all(bytes)
    /\ pc' = "reset_nodes"
    /\ UNCHANGED <<encoder, osm, idx, bytes, start, writes, hist, arg, res>>

Write_ResetNodes ==
    /\ pc = "reset_nodes"
    /\ O5mWriter_reset
    /\ idx' = 1
    /\ pc' = Loop(osm.nodes, 1, "node", "reset_ways")
    /\ UNCHANGED <<osm, bytes, start, writes, hist, arg, res>>

\* write_node: the node is encoded, then the type byte is written
WriteNode_Type ==
    /\ pc = "node"
    /\ LET r == node_to_bytes(encoder, osm.nodes[idx])
       IN  bytes' = r.bytes /\ encoder' = r.enc
    /\ write_all(<<O5M_NODE>>)
    /\ pc' = "node_len"
    /\ UNCHANGED <<osm, idx, start, writes, hist, arg, res>>

\* mutant: the length counts the type byte too
WriteNode_Len_mut ==
    /\ pc = "node_len"
    /\ write_all(uvarint_to_bytes(U64(Len(bytes) + 1)))
    /\ pc' = "node_body"
    /\ UNCHANGED <<encoder, osm, idx, bytes, start, writes, hist, arg, res>>

WriteNode_Len ==
    /\ pc = "node_len"
    /\ write_all(uvarint_to_bytes(U64(Len(bytes))))
    /\ pc' = "node_body"
    /\ UNCHANGED <<encoder, osm, idx, bytes, start, writes, hist, arg, res>>

WriteNode_Body ==
    /\ pc = "node_body"
    /\ write_all(bytes)
    /\ idx' = idx + 1
    /\ pc' = Loop(osm.nodes, idx + 1, "node", "reset_ways")
    /\ UNCHANGED <<encoder, osm, bytes, start, writes, hist, arg, res>>

\* mutant: the encoder is reset but no reset marker is written
Write_ResetWays_mut ==
    /\ pc = "reset_ways"
    /\ encoder' = O5mEncoder_reset(encoder)
    /\ idx' = 1
    /\ pc' = Loop(osm.ways, 1, "way", "reset_relations")
    /\ UNCHANGED <<inner, osm, bytes, start, writes, hist, arg, res>>

Write_ResetWays ==
    /\ pc = "reset_ways"
    /\ O5mWriter_reset
    /\ idx' = 1
    /\ pc' = Loop(osm.ways, 1, "way", "reset_relations")
    /\ UNCHANGED <<osm, bytes, start, writes, hist, arg, res>>

WriteWay_Type ==
    /\ pc = "way"
    /\ LET r == way_to_bytes(encoder, osm.ways[idx])
       IN  bytes' = r.bytes /\ encoder' = r.enc
    /\ write_all(<<O5M_WAY>>)
    /\ pc' = "way_len"
    /\ UNCHANGED <<osm, idx, start, writes, hist, arg, res>>

WriteWay_Len ==
    /\ pc = "way_len"
    /\ write_all(uvarint_to_bytes(U64(Len(bytes))))
    /\ pc' = "way_body"
    /\ UNCHANGED <<encoder, osm, idx, bytes, start, writes, hist, arg, res>>

WriteWay_Body ==
    /\ pc = "way_body"
    /\ write_all(bytes)
    /\ idx' = idx + 1
    /\ pc' = Loop(osm.ways, idx + 1, "way", "reset_relations")
    /\ UNCHANGED <<encoder, osm, bytes, start, writes, hist, arg, res>>

Write_ResetRelations ==
    /\ pc = "reset_relations"
    /\ O5mWriter_reset
    /\ idx' = 1
    /\ pc' = Loop(osm.relations, 1, "relation", "eof")
    /\ UNCHANGED <<osm, bytes, start, writes, hist, arg, res>>

WriteRelation_Type ==
    /\ pc = "relation"
    /\ LET r == relation_to_bytes(encoder, osm.relations[idx])
       IN  bytes' = r.bytes /\ encoder' = r.enc
    /\ write_all(<<O5M_RELATION>>)
    /\ pc' = "relation_len"
    /\ UNCHANGED <<osm, idx, start, writes, hist, arg, res>>

WriteRelation_Len ==
    /\ pc = "relation_len"
    /\ write_all(uvarint_to_bytes(U64(Len(bytes))))
    /\ pc' = "relation_body"
    /\ UNCHANGED <<encoder, osm, idx, bytes, start, writes, hist, arg, res>>

WriteRelation_Body ==
    /\ pc = "relation_body"
    /\ write_all(bytes)
    /\ idx' = idx + 1
    /\ pc' = Loop(osm.relations, idx + 1, "relation", "eof")
    /\ UNCHANGED <<encoder, osm, bytes, start, writes, hist, arg, res>>

\* the EOF marker is written and write() returns Ok(())
Write_Eof ==
    /\ pc = "eof"
    /\ write_all(<<O5M_EOF>>)
    /\ pc' = "done"
    /\ UNCHANGED <<encoder, osm, idx, bytes, start, writes, hist, arg, res>>

Next ==
    \/ \E node \in Nodes : EncNode(node)
    \/ \E way \in Ways : EncWay(way)
    \/ \E rel \in Relations : EncRelation(rel)
    \/ \E p \in Pairs : EncStringPair(p[1], p[2])
    \/ \E u \in Users : EncUser(u[1], u[2])
    \/ EncReset
    \/ \E m \in Maps : Write(m)
    \/ Write_ResetHeader
    \/ Write_Header
    \/ Write_HeaderData
    \/ WriteBoundingBox_Type
    \/ WriteBoundingBox_Len
    \/ WriteBoundingBox_Body
    \/ Write_ResetNodes
    \/ WriteNode_Type
    \/ WriteNode_Len
    \/ WriteNode_Body
    \/ Write_ResetWays
    \/ WriteWay_Type
    \/ WriteWay_Len
    \/ WriteWay_Body
    \/ Write_ResetRelations
    \/ WriteRelation_Type
    \/ WriteRelation_Len
    \/ WriteRelation_Body
    \/ Write_Eof

Spec == Init /\ [][Next]_vars

(***************************************************************************)
(* The reader of the specification (4.3 resolve, 4.4 decoding, 4.5 read    *)
(* side): the mirror of the encoder.  Integers are decoded to 64-bit words. *)
(***************************************************************************)
\* index of the first zero byte at or after pos, 0 if there is none
RECURSIVE NextZero(_, _)
NextZero(bs, pos) ==
    IF pos > Len(bs) THEN 0
    ELSE IF bs[pos] = 0 THEN pos
    ELSE NextZero(bs, pos + 1)

Decoder_new == [string_table |-> <<>>, delta |-> DeltaState_new]

\* DeltaState::decode
DecDelta(d, category, delta) ==
    LET value == Add64(d.delta[category], delta)
    IN  [value |-> value, dec |-> [d EXCEPT !.delta[category] = value]]

\* a literal token is recorded unless it is longer than 250 bytes; the oldest
\* entry is evicted beyond 15000 entries
DecInsert(d, token) ==
    IF Len(token) > MaxTokenLen THEN d
    ELSE LET t == <<token>> \o d.string_table
         IN  [d EXCEPT !.string_table =
                 IF Len(t) > StringTableCap THEN SubSeq(t, 1, StringTableCap) ELSE t]

\* resolve: a literal (a zero byte, then `terminators` zero-terminated
\* strings) or a back-reference n, the entry at position n - 1
Resolve(d, bs, pos, terminators) ==
    IF pos > Len(bs) THEN Failed
    ELSE IF bs[pos] = 0
    THEN LET e1 == NextZero(bs, pos + 1)
             e == IF terminators = 1 \/ e1 = 0 THEN e1 ELSE NextZero(bs, e1 + 1)
         IN  IF e = 0 THEN Failed
             ELSE [ok |-> TRUE, token |-> SubSeq(bs, pos, e), next |-> e + 1,
                   dec |-> DecInsert(d, SubSeq(bs, pos, e))]
    ELSE LET r == decode_unsigned(bs, pos)
         IN  IF ~r.ok THEN Failed
             ELSE IF ~IsSmall64(r.val) THEN Failed
             ELSE IF Nat64(r.val) < 1 \/ Nat64(r.val) > Len(d.string_table) THEN Failed
             ELSE [ok |-> TRUE, token |-> d.string_table[Nat64(r.val)],
                   next |-> r.next, dec |-> d]

\* 0x00 key 0x00 value 0x00
ParsePair(token) ==
    LET e1 == IF Len(token) >= 1 /\ token[1] = 0 THEN NextZero(token, 2) ELSE 0
        e2 == IF e1 = 0 THEN 0 ELSE NextZero(token, e1 + 1)
    IN  IF e2 = 0 \/ e2 # Len(token) THEN Failed
        ELSE [ok |-> TRUE, key |-> SubSeq(token, 2, e1 - 1),
              value |-> SubSeq(token, e1 + 1, e2 - 1)]

\* 0x00 type_digit role 0x00
ParseRole(token) ==
    IF Len(token) < 3 \/ token[1] # 0 \/ token[2] \notin {48, 49, 50}
       \/ NextZero(token, 2) # Len(token)
    THEN Failed
    ELSE [ok |-> TRUE,
          kind |-> CASE token[2] = 48 -> "Node" [] token[2] = 49 -> "Way"
                     [] token[2] = 50 -> "Relation",
          role |-> SubSeq(token, 3, Len(token) - 1)]

\* 0x00 unsigned_varint(uid) 0x00 username 0x00
ParseUser(token) ==
    LET p == ParsePair(token)
        uid == IF p.ok THEN decode_unsigned(p.key, 1) ELSE Failed
    IN  IF ~p.ok THEN Failed
        ELSE IF ~uid.ok \/ uid.next # Len(p.key) + 1 THEN Failed
        ELSE [ok |-> TRUE, uid |-> uid.val, user |-> p.value]

\* the tag tokens up to the end of the body
RECURSIVE DecodeTags(_, _, _, _)
DecodeTags(d, bs, pos, acc) ==
    IF pos > Len(bs) THEN [ok |-> TRUE, tags |-> acc, dec |-> d]
    ELSE LET t == Resolve(d, bs, pos, 2)
             p == IF t.ok THEN ParsePair(t.token) ELSE Failed
         IN  IF ~p.ok THEN Failed
             ELSE DecodeTags(t.dec, bs, t.next, Append(acc, Tag(p.key, p.value)))

\* the meta block: a zero byte is no version; after a version a zero byte is
\* no author, anything else the timestamp, the changeset and the user token
DecodeMeta(d, bs, pos) ==
    LET version == decode_unsigned(bs, pos)
    IN  IF pos > Len(bs) \/ ~version.ok THEN Failed
        ELSE IF version.val = Zero64
        THEN [ok |-> TRUE, version |-> Zero64, author |-> None, next |-> pos + 1, dec |-> d]
        ELSE IF version.next > Len(bs) THEN Failed
        ELSE IF bs[version.next] = 0
        THEN [ok |-> TRUE, version |-> version.val, author |-> None,
              next |-> version.next + 1, dec |-> d]
        ELSE LET ts == decode_signed(bs, version.next)
                 cs == IF ts.ok THEN decode_signed(bs, ts.next) ELSE Failed
                 d1 == DecDelta(d, "Timestamp", ts.val)
                 d2 == DecDelta(d1.dec, "ChangeSet", cs.val)
                 t == IF cs.ok THEN Resolve(d2.dec, bs, cs.next, 2) ELSE Failed
                 u == IF t.ok THEN ParseUser(t.token) ELSE Failed
             IN  IF ~u.ok THEN Failed
                 ELSE [ok |-> TRUE, version |-> version.val,
                       author |-> Some(Author(d1.value, d2.value, u.uid, u.user)),
                       next |-> t.next, dec |-> t.dec]

DecodeNode(d, bs) ==
    LET id == decode_signed(bs, 1)
        d1 == DecDelta(d, "Id", id.val)
        meta == IF id.ok THEN DecodeMeta(d1.dec, bs, id.next) ELSE Failed
        lon == IF meta.ok THEN decode_signed(bs, meta.next) ELSE Failed
        lat == IF lon.ok THEN decode_signed(bs, lon.next) ELSE Failed
        d2 == DecDelta(meta.dec, "Lon", lon.val)
        d3 == DecDelta(d2.dec, "Lat", lat.val)
        tags == IF lat.ok THEN DecodeTags(d3.dec, bs, lat.next, <<>>) ELSE Failed
    IN  IF ~tags.ok THEN Failed
        ELSE [ok |-> TRUE, dec |-> tags.dec,
              entity |-> Node(d1.value, Coordinate(AsI32(d3.value), AsI32(d2.value)),
                              Meta(tags.tags, meta.version, meta.author))]

\* the refs of a way: signed varints up to the end of the ref section
RECURSIVE DecodeRefs(_, _, _, _, _)
DecodeRefs(d, bs, pos, end, acc) ==
    IF pos = end + 1 THEN [ok |-> TRUE, refs |-> acc, dec |-> d]
    ELSE IF pos > end THEN Failed
    ELSE LET r == decode_signed(bs, pos)
             d1 == DecDelta(d, "WayRef", r.val)
         IN  IF ~r.ok THEN Failed
             ELSE DecodeRefs(d1.dec, bs, r.next, end, Append(acc, d1.value))

DecodeWay(d, bs) ==
    LET id == decode_signed(bs, 1)
        d1 == DecDelta(d, "Id", id.val)
        meta == IF id.ok THEN DecodeMeta(d1.dec, bs, id.next) ELSE Failed
        len == IF meta.ok THEN decode_unsigned(bs, meta.next) ELSE Failed
        end == len.next - 1 + Nat64(len.val)
        refs == IF len.ok /\ IsSmall64(len.val) /\ end <= Len(bs)
                THEN DecodeRefs(meta.dec, bs, len.next, end, <<>>) ELSE Failed
        tags == IF refs.ok THEN DecodeTags(refs.dec, bs, end + 1, <<>>) ELSE Failed
    IN  IF ~tags.ok THEN Failed
        ELSE [ok |-> TRUE, dec |-> tags.dec,
              entity |-> Way(d1.value, refs.refs, Meta(tags.tags, meta.version, meta.author))]

RelCategory(kind) ==
    CASE kind = "Node" -> "RelNodeRef" [] kind = "Way" -> "RelWayRef"
      [] kind = "Relation" -> "RelRelRef"

\* the members of a relation up to the end of the member section
RECURSIVE DecodeMembers(_, _, _, _, _)
DecodeMembers(d, bs, pos, end, acc) ==
    IF pos = end + 1 THEN [ok |-> TRUE, members |-> acc, dec |-> d]
    ELSE IF pos > end THEN Failed
    ELSE LET r == decode_signed(bs, pos)
             t == IF r.ok THEN Resolve(d, SubSeq(bs, 1, end), r.next, 1) ELSE Failed
             role == IF t.ok THEN ParseRole(t.token) ELSE Failed
             d1 == DecDelta(t.dec, RelCategory(role.kind), r.val)
         IN  IF ~role.ok THEN Failed
             ELSE DecodeMembers(d1.dec, bs, t.next, end,
                                Append(acc, Member(role.kind, d1.value, role.role)))

DecodeRelation(d, bs) ==
    LET id == decode_signed(bs, 1)
        d1 == DecDelta(d, "Id", id.val)
        meta == IF id.ok THEN DecodeMeta(d1.dec, bs, id.next) ELSE Failed
        len == IF meta.ok THEN decode_unsigned(bs, meta.next) ELSE Failed
        end == len.next - 1 + Nat64(len.val)
        members == IF len.ok /\ IsSmall64(len.val) /\ end <= Len(bs)
                   THEN DecodeMembers(meta.dec, bs, len.next, end, <<>>) ELSE Failed
        tags == IF members.ok THEN DecodeTags(members.dec, bs, end + 1, <<>>) ELSE Failed
    IN  IF ~tags.ok THEN Failed
        ELSE [ok |-> TRUE, dec |-> tags.dec,
              entity |-> Relation(d1.value, members.members,
                                  Meta(tags.tags, meta.version, meta.author))]

\* the bounding box: min lon, min lat, max lon, max lat, not delta coded
DecodeBoundingBox(bs) ==
    LET a == decode_signed(bs, 1)
        b == IF a.ok THEN decode_signed(bs, a.next) ELSE Failed
        c == IF b.ok THEN decode_signed(bs, b.next) ELSE Failed
        e == IF c.ok THEN decode_signed(bs, c.next) ELSE Failed
    IN  IF ~e.ok \/ e.next # Len(bs) + 1 THEN Failed
        ELSE [ok |-> TRUE,
              boundary |-> Boundary(Coordinate(AsI32(b.val), AsI32(a.val)),
                                    Coordinate(AsI32(e.val), AsI32(c.val)))]

\* The frame codec, read side: the frames of a stream from pos on, up to and
\* with the EOF marker.  A frame is [type, body]; `end` is where EOF stood.
RECURSIVE ReadFrames(_, _, _)
ReadFrames(bs, pos, acc) ==
    IF pos > Len(bs) THEN Failed
    ELSE LET t == bs[pos]
         IN  CASE t = O5M_EOF ->
                    [ok |-> TRUE, end |-> pos,
                     frames |-> Append(acc, [type |-> t, body |-> <<>>])]
               [] t = O5M_RESET ->
                    ReadFrames(bs, pos + 1, Append(acc, [type |-> t, body |-> <<>>]))
               [] t = O5M_HEADER ->
                    LET n == Len(O5M_HEADER_DATA)
                    IN  IF pos + n <= Len(bs) /\ SubSeq(bs, pos + 1, pos + n) = O5M_HEADER_DATA
                        THEN ReadFrames(bs, pos + n + 1,
                                        Append(acc, [type |-> t, body |-> O5M_HEADER_DATA]))
                        ELSE Failed
               [] t \in {O5M_BOUNDING_BOX, O5M_NODE, O5M_WAY, O5M_RELATION} ->
                    LET len == decode_unsigned(bs, pos + 1)
                        last == len.next - 1 + Nat64(len.val)
                    IN  IF ~len.ok THEN Failed
                        ELSE IF ~IsSmall64(len.val) THEN Failed
                        ELSE IF last > Len(bs) THEN Failed
                        ELSE ReadFrames(bs, last + 1,
                                 Append(acc, [type |-> t,
                                              body |-> SubSeq(bs, len.next, last)]))
               [] OTHER -> Failed

\* the frames dispatched one by one into the Map read so far
RECURSIVE ReadEntities(_, _, _, _)
ReadEntities(frames, k, d, m) ==
    IF k > Len(frames) THEN [ok |-> TRUE, map |-> m]
    ELSE LET f == frames[k]
         IN  CASE f.type = O5M_RESET -> ReadEntities(frames, k + 1, Decoder_new, m)
               [] f.type = O5M_BOUNDING_BOX ->
                    LET b == DecodeBoundingBox(f.body)
                    IN  IF ~b.ok THEN Failed
                        ELSE ReadEntities(frames, k + 1, d,
                                          [m EXCEPT !.boundary = Some(b.boundary)])
               [] f.type = O5M_NODE ->
                    LET n == DecodeNode(d, f.body)
                    IN  IF ~n.ok THEN Failed
                        ELSE ReadEntities(frames, k + 1, n.dec,
                                          [m EXCEPT !.nodes = Append(@, n.entity)])
               [] f.type = O5M_WAY ->
                    LET w == DecodeWay(d, f.body)
                    IN  IF ~w.ok THEN Failed
                        ELSE ReadEntities(frames, k + 1, w.dec,
                                          [m EXCEPT !.ways = Append(@, w.entity)])
               [] f.type = O5M_RELATION ->
                    LET r == DecodeRelation(d, f.body)
                    IN  IF ~r.ok THEN Failed
                        ELSE ReadEntities(frames, k + 1, r.dec,
                                          [m EXCEPT !.relations = Append(@, r.entity)])
               [] OTHER -> ReadEntities(frames, k + 1, d, m)

\* read()
Read(bs) ==
    LET f == ReadFrames(bs, 1, <<>>)
    IN  IF ~f.ok THEN Failed
        ELSE ReadEntities(f.frames, 1, Decoder_new, Osm(None, <<>>, <<>>, <<>>))

\* a Map with its integers as the 64-bit words read() returns
WireMeta(meta) ==
    Meta(meta.tags, U64(meta.version),
         IF meta.author = None THEN None
         ELSE LET a == meta.author[1]
              IN  Some(Author(I64(a.created), U64(a.change_set), U64(a.uid), a.user)))
WireCoordinate(c) == Coordinate(I64(c.lat), I64(c.lon))
WireNode(n) == Node(I64(n.id), WireCoordinate(n.coordinate), WireMeta(n.meta))
WireWay(w) == Way(I64(w.id), [k \in 1..Len(w.refs) |-> I64(w.refs[k])], WireMeta(w.meta))
WireRelation(r) ==
    Relation(I64(r.id),
             [k \in 1..Len(r.members) |->
                 Member(r.members[k].kind, I64(r.members[k].id), r.members[k].role)],
             WireMeta(r.meta))
WireOsm(m) ==
    Osm(IF m.boundary = None THEN None
        ELSE Some(Boundary(WireCoordinate(m.boundary[1].min),
                           WireCoordinate(m.boundary[1].max))),
        [k \in 1..Len(m.nodes) |-> WireNode(m.nodes[k])],
        [k \in 1..Len(m.ways) |-> WireWay(m.ways[k])],
        [k \in 1..Len(m.relations) |-> WireRelation(m.relations[k])])

\* the bytes the running (or last) write() call has sent to the sink
Sent == SubSeq(inner, start + 1, Len(inner))

Repeat(n, x) == [k \in 1..n |-> x]
Last(q) == q[Len(q)]
\* the last n bytes the sink received
Received(n) == SubSeq(inner, Len(inner) - n + 1, Len(inner))

\* the ids of the frames of one type, their deltas summed up from 0
RECURSIVE FrameIds(_, _, _)
FrameIds(fs, k, prev) ==
    IF k > Len(fs) THEN <<>>
    ELSE LET v == Add64(prev, decode_signed(fs[k].body, 1).val)
         IN  <<v>> \o FrameIds(fs, k + 1, v)

FramesOf(frames, t) == SelectSeq(frames, LAMBDA f : f.type = t)
IdsOf(collection) == [k \in 1..Len(collection) |-> I64(collection[k].id)]

\* C1: a successful write() sends reset, header and its payload, the bounding
\* box exactly when there is a boundary, reset, the nodes in order, reset,
\* the ways in order, reset, the relations in order, and EOF as the last byte.
C1_WriteOrder ==
    pc = "done" =>
        LET f == ReadFrames(Sent, 1, <<>>)
        IN  /\ f.ok
            /\ f.end = Len(Sent)
            /\ [k \in 1..Len(f.frames) |-> f.frames[k].type] =
                   <<O5M_RESET, O5M_HEADER>>
                   \o (IF osm.boundary # None THEN <<O5M_BOUNDING_BOX>> ELSE <<>>)
                   \o <<O5M_RESET>> \o Repeat(Len(osm.nodes), O5M_NODE)
                   \o <<O5M_RESET>> \o Repeat(Len(osm.ways), O5M_WAY)
                   \o <<O5M_RESET>> \o Repeat(Len(osm.relations), O5M_RELATION)
                   \o <<O5M_EOF>>
            /\ FrameIds(FramesOf(f.frames, O5M_NODE), 1, Zero64) = IdsOf(osm.nodes)
            /\ FrameIds(FramesOf(f.frames, O5M_WAY), 1, Zero64) = IdsOf(osm.ways)
            /\ FrameIds(FramesOf(f.frames, O5M_RELATION), 1, Zero64) = IdsOf(osm.relations)

C1_Witness ==
    /\ pc = "done"
    /\ osm.boundary # None
    /\ Len(osm.nodes) = 1 /\ Len(osm.ways) = 1 /\ Len(osm.relations) = 1
    /\ Len(ReadFrames(Sent, 1, <<>>).frames) = 10

\* what a freshly constructed encoder returns for a call
FreshRet(h) ==
    CASE h.op = "node_to_bytes" -> node_to_bytes(O5mEncoder_new, h.arg[1]).bytes
      [] h.op = "way_to_bytes" -> way_to_bytes(O5mEncoder_new, h.arg[1]).bytes
      [] h.op = "relation_to_bytes" -> relation_to_bytes(O5mEncoder_new, h.arg[1]).bytes
      [] h.op = "string_pair_to_bytes" ->
            string_pair_to_bytes(O5mEncoder_new, h.arg[1], h.arg[2]).bytes
      [] h.op = "user_to_bytes" -> user_to_bytes(O5mEncoder_new, h.arg[1], h.arg[2]).bytes
      [] h.op = "reset" -> <<>>

EntityOps == {"node_to_bytes", "way_to_bytes", "relation_to_bytes"}

\* C3: after a reset the string table is empty and all nine deltas are 0; the
\* call that follows a reset returns what a fresh encoder returns (an id as
\* its own value, a tag pair as a literal); in write() the encoder is fresh
\* at the start of the nodes, the ways and the relations block.
C3_ResetIsFresh ==
    /\ (hist # <<>> /\ Last(hist).op = "reset") =>
          /\ encoder.string_table = <<>>
          /\ \A c \in Delta : encoder.delta[c] = Zero64
    /\ \A j \in 1..(Len(hist) - 1) :
          hist[j].op = "reset" =>
             /\ hist[j + 1].ret = FreshRet(hist[j + 1])
             /\ hist[j + 1].op \in EntityOps =>
                   decode_signed(hist[j + 1].ret, 1).val = I64(hist[j + 1].arg[1].id)
             /\ hist[j + 1].op = "string_pair_to_bytes" =>
                   hist[j + 1].ret =
                       <<0>> \o hist[j + 1].arg[1] \o <<0>> \o hist[j + 1].arg[2] \o <<0>>
    /\ (pc \in {"node", "way", "relation"} /\ idx = 1) => encoder = O5mEncoder_new
    /\ (pc = "node_len" /\ idx = 1) =>
          bytes = node_to_bytes(O5mEncoder_new, osm.nodes[1]).bytes
    /\ (pc = "way_len" /\ idx = 1) =>
          bytes = way_to_bytes(O5mEncoder_new, osm.ways[1]).bytes
    /\ (pc = "relation_len" /\ idx = 1) =>
          bytes = relation_to_bytes(O5mEncoder_new, osm.relations[1]).bytes

\* a node, a reset, and the same node again: the same bytes twice
C3_Witness ==
    /\ Len(hist) = 3
    /\ hist[1].op = "node_to_bytes" /\ hist[1].arg = <<NodeB>>
    /\ hist[2].op = "reset"
    /\ hist[3].op = "node_to_bytes" /\ hist[3].arg = <<NodeB>>
    /\ hist[3].ret = hist[1].ret

IsLongPair(h) ==
    h.op = "string_pair_to_bytes" /\ Len(h.arg[1]) + Len(h.arg[2]) > 250

\* C6: a tag pair whose key and value together are longer than 250 bytes is
\* returned as the literal 0x00 key 0x00 value 0x00 every time, and the call
\* leaves the string table unchanged.
C6_LongPairLiteral ==
    [][(Len(hist') = Len(hist) + 1 /\ IsLongPair(Last(hist'))) =>
          /\ Last(hist').ret =
                <<0>> \o Last(hist').arg[1] \o <<0>> \o Last(hist').arg[2] \o <<0>>
          /\ encoder'.string_table = encoder.string_table]_vars

\* the same long pair twice in a row, a literal both times
C6_Witness ==
    /\ Len(hist) = 2
    /\ IsLongPair(hist[1]) /\ IsLongPair(hist[2])
    /\ hist[1].arg = hist[2].arg
    /\ hist[2].ret = <<0>> \o S_long \o <<0>> \o S_y \o <<0>>
    /\ encoder.string_table = <<>>

\* a frame: the type byte, the unsigned varint of the body's length, the body
IsFrame(fr, type, body) ==
    /\ Len(fr) >= 2
    /\ fr[1] = type
    /\ LET len == decode_unsigned(fr, 2)
       IN  /\ len.ok
           /\ len.next > 2
           /\ len.val = U64(Len(body))
           /\ SubSeq(fr, len.next, Len(fr)) = body

\* the type of the frame that was just completed, 0 if none was
FrameDone ==
    CASE pc = "reset_nodes" /\ osm.boundary # None -> O5M_BOUNDING_BOX
      [] pc \in {"node", "reset_ways"} /\ idx >= 2 -> O5M_NODE
      [] pc \in {"way", "reset_relations"} /\ idx >= 2 -> O5M_WAY
      [] pc \in {"relation", "eof"} /\ idx >= 2 -> O5M_RELATION
      [] OTHER -> 0

\* the bodies the encoder returns for a collection, one after the other
RECURSIVE Bodies(_, _, _, _)
Bodies(e, type, collection, k) ==
    IF k > Len(collection) THEN <<>>
    ELSE LET r == CASE type = O5M_NODE -> node_to_bytes(e, collection[k])
                    [] type = O5M_WAY -> way_to_bytes(e, collection[k])
                    [] type = O5M_RELATION -> relation_to_bytes(e, collection[k])
         IN  <<r.bytes>> \o Bodies(r.enc, type, collection, k + 1)

FrameBodies(frames, type) ==
    LET fs == FramesOf(frames, type) IN [k \in 1..Len(fs) |-> fs[k].body]

\* C9: every bounding-box, node, way and relation frame is its type byte, the
\* unsigned varint of the number of body bytes, and that many body bytes.
C9_Framing ==
    /\ FrameDone # 0 =>
          \E n \in 1..5 :
             /\ Len(Sent) >= 1 + n + Len(bytes)
             /\ IsFrame(Received(1 + n + Len(bytes)), FrameDone, bytes)
    /\ pc = "done" =>
          LET f == ReadFrames(Sent, 1, <<>>)
          IN  /\ f.ok
              /\ FrameBodies(f.frames, O5M_NODE) = Bodies(O5mEncoder_new, O5M_NODE, osm.nodes, 1)
              /\ FrameBodies(f.frames, O5M_WAY) = Bodies(O5mEncoder_new, O5M_WAY, osm.ways, 1)
              /\ FrameBodies(f.frames, O5M_RELATION) =
                     Bodies(O5mEncoder_new, O5M_RELATION, osm.relations, 1)
              /\ Len(FramesOf(f.frames, O5M_BOUNDING_BOX)) =
                     (IF osm.boundary # None THEN 1 ELSE 0)

\* a relation frame with a body of more than 127 bytes: a length of two bytes
C9_Witness ==
    /\ FrameDone = O5M_RELATION
    /\ Len(bytes) > 127
    /\ IsFrame(Received(3 + Len(bytes)), O5M_RELATION, bytes)

C10_Body0 == <<128, 1, 0, 8, 129, 1>> \o <<0>> \o S_oneway \o <<0>> \o S_yes \o <<0>>
C10_Body1 == <<128, 1, 1, 0, 8, 129, 1>> \o <<0>> \o S_oneway \o <<0>> \o S_yes \o <<0>>

FirstNodeWritten(node) ==
    /\ pc \in {"node", "reset_ways"} /\ idx = 2
    /\ osm.nodes[1] = node

\* C10 as stated: the node without a version has the 18-byte body
\* 80 01 00 08 81 01 00 "oneway" 00 "yes" 00 and is framed as 10 13 body.
C10_Stated ==
    FirstNodeWritten(NodeA0) =>
        /\ bytes = C10_Body0
        /\ Received(2 + Len(bytes)) = <<16, 19>> \o C10_Body0

\* C10 amended: with version 0 (no version) the body is those 18 bytes and the
\* frame is 10 12 body; with version 1, as in tests::write_node, the body is
\* 80 01 01 00 08 81 01 00 "oneway" 00 "yes" 00 and the frame is 10 13 body.
C10_NodeFrame ==
    /\ (hist # <<>> /\ hist[1].op = "node_to_bytes" /\ hist[1].arg = <<NodeA0>>) =>
          hist[1].ret = C10_Body0
    /\ (hist # <<>> /\ hist[1].op = "node_to_bytes" /\ hist[1].arg = <<NodeA1>>) =>
          hist[1].ret = C10_Body1
    /\ FirstNodeWritten(NodeA0) =>
          /\ bytes = C10_Body0
          /\ Received(2 + Len(bytes)) = <<16, 18>> \o C10_Body0
    /\ FirstNodeWritten(NodeA1) =>
          /\ bytes = C10_Body1
          /\ Received(2 + Len(bytes)) = <<16, 19>> \o C10_Body1

C10_Witness ==
    /\ FirstNodeWritten(NodeA0)
    /\ Received(20) = <<16, 18>> \o C10_Body0

(***************************************************************************)
(* An encoder deep into a block: "oneway"="yes" was interned first and      *)
(* StringTableCap - 2 other distinct tag pairs after it                     *)
(***************************************************************************)
\* the p-th of the other pairs: a key of three letters and the empty value
Filler(p) ==
    <<0, 97 + (p % 26), 97 + ((p \div 26) % 26), 97 + ((p \div 676) % 26), 0, 0>>

FullTable ==
    [p \in 1..(StringTableCap - 1) |->
        IF p = StringTableCap - 1
        THEN <<0>> \o S_oneway \o <<0>> \o S_yes \o <<0>>
        ELSE Filler(p)]

InitFull ==
    /\ encoder = [string_table |-> FullTable, delta |-> DeltaState_new]
    /\ inner = <<>> /\ pc = "idle" /\ osm = <<>> /\ idx = 0 /\ bytes = <<>>
    /\ start = 0 /\ writes = 0 /\ hist = <<>>
    /\ arg = NoCall /\ res = <<>>

NextFull ==
    \/ \E p \in Pairs : EncStringPair(p[1], p[2])
    \/ \E u \in Users : EncUser(u[1], u[2])

SpecFull == InitFull /\ [][NextFull]_vars

\* C4: the string reference table never holds more than 15000 entries.
C4_TableBound == Len(encoder.string_table) <= StringTableCap

InternOps == {"string_pair_to_bytes", "user_to_bytes"}

\* C5: no back-reference greater than 15000 is emitted: a string that 15000
\* others have followed comes out as a literal again.
C5_NoStaleReference ==
    \A j \in 1..Len(hist) :
        hist[j].op \in InternOps =>
            \/ hist[j].ret[1] = 0
            \/ LET n == decode_unsigned(hist[j].ret, 1)
               IN  n.ok /\ IsSmall64(n.val) /\ Nat64(n.val) <= StringTableCap

\* C2: read(write(m)) == m field for field.
C2_RoundTrip ==
    pc = "done" => Read(Sent) = [ok |-> TRUE, map |-> WireOsm(osm)]

\* the unit tests of writer.rs
UnitTests ==
    /\ uvarint_to_bytes(U64(5)) = <<5>>
    /\ uvarint_to_bytes(U64(127)) = <<127>>
    /\ uvarint_to_bytes(U64(323)) = <<195, 2>>
    /\ uvarint_to_bytes(U64(16384)) = <<128, 128, 1>>
    /\ varint_to_bytes(I64(4)) = <<8>>
    /\ varint_to_bytes(I64(-3)) = <<5>>
    /\ varint_to_bytes(I64(64)) = <<128, 1>>
    /\ varint_to_bytes(I64(-65)) = <<129, 1>>
    /\ node_to_bytes(O5mEncoder_new, NodeA1).bytes =
          <<128, 1, 1, 0, 8, 129, 1>> \o <<0>> \o S_oneway \o <<0>> \o S_yes \o <<0>>
    /\ way_to_bytes(O5mEncoder_new, WayA).bytes =
          <<128, 1, 1, 0, 3, 128, 1, 2>> \o <<0>> \o S_highway \o <<0>> \o S_secondary \o <<0>>
    /\ relation_to_bytes(O5mEncoder_new, RelationA).bytes =
          <<128, 1, 1, 0, 18, 8, 0, 49>> \o S_outer \o <<0, 8, 0, 49>> \o S_inner \o <<0>>
          \o <<0>> \o S_type \o <<0>> \o S_multipolygon \o <<0>>
    /\ Len(relation_to_bytes(O5mEncoder_new, RelationA).bytes) = 42

(***************************************************************************)
(* write() over a sink whose write_all can fail: every `?` of write(),      *)
(* reset() and write_*() returns the error to the caller of write()         *)
(***************************************************************************)
\* the positions of write() whose write_all call has not been made yet
Resets == {"reset_header", "reset_nodes", "reset_ways", "reset_relations"}
Encodes == {"node", "way", "relation"}

\* the buffer the write_all call at the current position is given
Pending ==
    CASE pc \in Resets -> <<O5M_RESET>>
      [] pc = "header" -> <<O5M_HEADER>>
      [] pc = "header_data" -> O5M_HEADER_DATA
      [] pc = "bounding_box" -> <<O5M_BOUNDING_BOX>>
      [] pc = "node" -> <<O5M_NODE>>
      [] pc = "way" -> <<O5M_WAY>>
      [] pc = "relation" -> <<O5M_RELATION>>
      [] pc \in {"bounding_box_len", "node_len", "way_len", "relation_len"} ->
            uvarint_to_bytes(U64(Len(bytes)))
      [] pc \in {"bounding_box_body", "node_body", "way_body", "relation_body"} -> bytes
      [] pc = "eof" -> <<O5M_EOF>>
      [] OTHER -> <<>>

\* the encoder when the write_all call at the current position is made: an
\* entity is encoded before its type byte is written, a reset of the encoder
\* comes after the reset byte
EncoderAtCall ==
    CASE pc = "node" -> node_to_bytes(encoder, osm.nodes[idx]).enc
      [] pc = "way" -> way_to_bytes(encoder, osm.ways[idx]).enc
      [] pc = "relation" -> relation_to_bytes(encoder, osm.relations[idx]).enc
      [] OTHER -> encoder

\* mutant: the error of write_all is dropped and write() goes on
WriteAll_Err_mut(n) ==
    /\ Pending # <<>>
    /\ n < Len(Pending)
    /\ inner' = inner \o SubSeq(Pending, 1, n)
    /\ encoder' = EncoderAtCall
    /\ arg' = [fn |-> "write_all", at |-> pc, buf |-> Pending, n |-> n, before |-> inner]
    /\ UNCHANGED <<pc, osm, idx, bytes, start, writes, hist, res>>

\* write_all returns Err after the sink took the first n bytes of the buffer,
\* and `?` returns it from write()
WriteAll_Err(n) ==
    /\ Pending # <<>>
    /\ n < Len(Pending)
    /\ inner' = inner \o SubSeq(Pending, 1, n)
    /\ encoder' = EncoderAtCall
    /\ pc' = "failed"
    /\ arg' = [fn |-> "write_all", at |-> pc, buf |-> Pending, n |-> n, before |-> inner]
    /\ UNCHANGED <<osm, idx, bytes, start, writes, hist, res>>

\* the steps of write() whose write_all call returns Ok
NextOk ==
    \/ Write_ResetHeader
    \/ Write_Header
    \/ Write_HeaderData
    \/ WriteBoundingBox_Type
    \/ WriteBoundingBox_Len
    \/ WriteBoundingBox_Body
    \/ Write_ResetNodes
    \/ WriteNode_Type
    \/ WriteNode_Len
    \/ WriteNode_Body
    \/ Write_ResetWays
    \/ WriteWay_Type
    \/ WriteWay_Len
    \/ WriteWay_Body
    \/ Write_ResetRelations
    \/ WriteRelation_Type
    \/ WriteRelation_Len
    \/ WriteRelation_Body
    \/ Write_Eof

\* how much of the buffer a failing write_all has passed on: nothing, one
\* byte, or all but the last byte
Partial == {0, 1, Len(Pending) - 1}

NextSink ==
    \/ \E m \in Maps : Write(m)
    \/ NextOk
    \/ \E n \in Partial : WriteAll_Err(n)

SpecSink == Init /\ [][NextSink]_vars

\* a frame as write_node, write_way, write_relation and write_bounding_box
\* send it
Frame(type, body) == <<type>> \o uvarint_to_bytes(U64(Len(body))) \o body

RECURSIVE Frames(_, _, _)
Frames(type, bodies, k) ==
    IF k > Len(bodies) THEN <<>>
    ELSE Frame(type, bodies[k]) \o Frames(type, bodies, k + 1)

BoundingBoxBody(boundary) ==
    varint_to_bytes(I64(boundary.min.lon)) \o varint_to_bytes(I64(boundary.min.lat))
    \o varint_to_bytes(I64(boundary.max.lon)) \o varint_to_bytes(I64(boundary.max.lat))

\* the bytes a writer with a fresh encoder sends for the map m
Output(m) ==
    <<O5M_RESET, O5M_HEADER>> \o O5M_HEADER_DATA
    \o (IF m.boundary # None
        THEN Frame(O5M_BOUNDING_BOX, BoundingBoxBody(m.boundary[1])) ELSE <<>>)
    \o <<O5M_RESET>> \o Frames(O5M_NODE, Bodies(O5mEncoder_new, O5M_NODE, m.nodes, 1), 1)
    \o <<O5M_RESET>> \o Frames(O5M_WAY, Bodies(O5mEncoder_new, O5M_WAY, m.ways, 1), 1)
    \o <<O5M_RESET>>
    \o Frames(O5M_RELATION, Bodies(O5mEncoder_new, O5M_RELATION, m.relations, 1), 1)
    \o <<O5M_EOF>>

IsPrefix(s, q) == Len(s) <= Len(q) /\ s = SubSeq(q, 1, Len(s))

Failure == arg # NoCall /\ arg.fn = "write_all"

\* the entity the loop of write() is at
Current ==
    CASE pc \in {"node", "node_len", "node_body"} -> osm.nodes
      [] pc \in {"way", "way_len", "way_body"} -> osm.ways
      [] pc \in {"relation", "relation_len", "relation_body"} -> osm.relations
      [] OTHER -> <<>>

\* C11: once a write_all of the sink has failed, write() has returned the
\* error (it never reaches Ok), the sink holds what it held before the failing
\* call plus the part of the buffer that call passed on, and nothing after it:
\* a proper prefix of the complete output, so without the EOF marker at its
\* end; write() returns an error only after a call failed and Ok only when
\* none did, having sent the complete output; until it returns it is at a
\* write_all call of the sink, which both outcomes carry on from.
C11_SinkFailure ==
    /\ Failure =>
          /\ pc = "failed"
          /\ inner = arg.before \o SubSeq(arg.buf, 1, arg.n)
          /\ IsPrefix(Sent, Output(osm))
          /\ Len(Sent) < Len(Output(osm))
    /\ pc = "failed" => Failure
    /\ pc = "done" => ~Failure /\ Sent = Output(osm)
    /\ pc \notin {"idle", "done", "failed"} =>
          /\ Pending # <<>>
          /\ Current # <<>> => idx \in 1..Len(Current)
          /\ IsPrefix(Sent \o Pending, Output(osm))

\* the body of the second node was cut off before its last byte: the first
\* node's frame is in the sink, no way, no relation and no EOF marker
C11_Witness ==
    /\ pc = "failed"
    /\ arg.at = "node_body" /\ idx = 2
    /\ arg.n = Len(arg.buf) - 1 /\ arg.n > 1
    /\ Len(osm.ways) > 0
    /\ Len(inner) = Len(arg.before) + arg.n

(***************************************************************************)
(* osm_io: the selection of the file format.  A &str is the sequence of    *)
(* its bytes; a path is the sequence of the bytes of its OsStr.            *)
(***************************************************************************)
S_osm == <<111, 115, 109>>
S_o5m == <<111, 53, 109>>
DOT == 46
SLASH == 47
\* a byte that no UTF-8 string holds
NOT_UTF8 == 255

Ok(x) == <<"Ok", x>>
Err == <<"Err">>

\* mutant: the tags are matched on their first and last letter
FileFormat_from_mut(s) ==
    CASE Len(s) = 3 /\ s[1] = 111 /\ s[3] = 109 /\ s[2] # 53 -> Some("Xml")
      [] s = S_o5m -> Some("O5m")
      [] OTHER -> None

FileFormat_from(s) ==
    CASE s = S_osm -> Some("Xml")
      [] s = S_o5m -> Some("O5m")
      [] OTHER -> None

\* TryFrom<&str> (and TryFrom<&String>, which passes its slice on)
try_from_str(value) ==
    IF FileFormat_from(value) # None THEN Ok(FileFormat_from(value)[1]) ELSE Err

\* the components of a path: the parts between separators; empty parts and
\* "." parts are dropped (std::path::Path::components)
RECURSIVE Components(_, _, _)
Components(path, k, cur) ==
    LET done == IF cur = <<>> \/ cur = <<DOT>> THEN <<>> ELSE <<cur>>
    IN  IF k > Len(path) THEN done
        ELSE IF path[k] = SLASH THEN done \o Components(path, k + 1, <<>>)
        ELSE Components(path, k + 1, Append(cur, path[k]))

\* std::path::Path::file_name: the last component unless it is ".."
file_name(path) ==
    LET cs == Components(path, 1, <<>>)
    IN  IF cs = <<>> \/ Last(cs) = <<DOT, DOT>> THEN None ELSE Some(Last(cs))

\* index of the last dot of a name, 0 if there is none
LastDot(name) ==
    LET dots == {k \in 1..Len(name) : name[k] = DOT}
    IN  IF dots = {} THEN 0 ELSE CHOOSE k \in dots : \A j \in dots : j <= k

\* std::path::Path::extension: the part of the file name after its last dot;
\* none without a file name, without a dot, or when the only dot is in front
extension(path) ==
    LET name == file_name(path)
    IN  IF name = None \/ LastDot(name[1]) <= 1 THEN None
        ELSE Some(SubSeq(name[1], LastDot(name[1]) + 1, Len(name[1])))

\* OsStr::to_str: the string, if it is valid UTF-8
to_str(os_str) ==
    IF \E k \in 1..Len(os_str) : os_str[k] = NOT_UTF8 THEN None ELSE Some(os_str)

\* TryFrom<&Path>
try_from_path(path) ==
    IF extension(path) # None /\ to_str(extension(path)[1]) # None
    THEN try_from_str(to_str(extension(path)[1])[1])
    ELSE Err

MaxStrLen == 3
MaxNameLen == 5

StrChars == {111, 115, 109, 53, 79}
NameChars == {111, 115, 109, 53, DOT, NOT_UTF8}
Strs == SeqsUpTo(StrChars, MaxStrLen)
Dirs == {<<>>, <<111, DOT, 109, SLASH>>}
Tails == {<<>>, <<SLASH>>, <<SLASH, DOT, DOT>>}
Paths == {d \o n \o e : d \in Dirs, n \in SeqsUpTo(NameChars, MaxNameLen), e \in Tails}

\* `"..".try_into()`
TryFromStr(value) ==
    /\ arg = NoCall
    /\ arg' = [fn |-> "try_from_str", value |-> value]
    /\ res' = try_from_str(value)
    /\ UNCHANGED <<encoder, inner, pc, osm, idx, bytes, start, writes, hist>>

\* `Path::new("..").try_into()`
TryFromPath(path) ==
    /\ arg = NoCall
    /\ arg' = [fn |-> "try_from_path", value |-> path]
    /\ res' = try_from_path(path)
    /\ UNCHANGED <<encoder, inner, pc, osm, idx, bytes, start, writes, hist>>

\* `create_writer(output, format)` with the format of `try_into().unwrap()`:
\* unwrap panics on Err, so the call is reached with an Ok value only
CreateWriter ==
    /\ arg # NoCall /\ hist = <<>>
    /\ res[1] = "Ok"
    /\ hist' = <<[op |-> "create_writer", arg |-> <<res[2]>>, ret |-> <<>>]>>
    /\ encoder' = O5mEncoder_new
    /\ UNCHANGED <<inner, pc, osm, idx, bytes, start, writes, arg, res>>

\* one selection, then the writer if there is a format
NextFormat ==
    \/ arg = NoCall /\ \E value \in Strs : TryFromStr(value)
    \/ arg = NoCall /\ \E path \in Paths : TryFromPath(path)
    \/ CreateWriter

SpecFormat == InitVarint /\ [][NextFormat]_vars

\* the format a tag stands for
FormatOf(s) == IF s = S_osm THEN Ok("Xml") ELSE IF s = S_o5m THEN Ok("O5m") ELSE Err

\* C12: from a string the format is Xml for exactly "osm", O5m for exactly
\* "o5m" and an error for every other string; from a path it is the format of
\* the path's extension, and an error when the path has none; after an error
\* no writer has been created and nothing was sent to the sink.
C12_FormatSelection ==
    /\ (arg # NoCall /\ arg.fn = "try_from_str") =>
          /\ res = FormatOf(arg.value)
          /\ res = Ok("Xml") <=> arg.value = <<111, 115, 109>>
          /\ res = Ok("O5m") <=> arg.value = <<111, 53, 109>>
          /\ res \in {Ok("Xml"), Ok("O5m"), Err}
    /\ (arg # NoCall /\ arg.fn = "try_from_path") =>
          /\ extension(arg.value) = None => res = Err
          /\ extension(arg.value) # None => res = FormatOf(extension(arg.value)[1])
    /\ (arg # NoCall /\ res = Err) => hist = <<>> /\ inner = <<>>
    /\ hist # <<>> => res = Ok(hist[1].arg[1])

\* a path in a directory whose name has an extension of its own
C12_Witness ==
    /\ arg # NoCall /\ arg.fn = "try_from_path"
    /\ arg.value = <<111, DOT, 109, SLASH, 115, DOT, 111, 53, 109, SLASH>>
    /\ res = Ok("O5m")
    /\ hist # <<>>

(***************************************************************************)
(* The string reference table and the tokens                               *)
(***************************************************************************)
\* C13: every entry of the string reference table is a token of at most 250
\* bytes, the 0x00 separators counted: a tag pair or user token longer than
\* that is returned as it is and not recorded.
C13_EntryLength ==
    \A k \in 1..Len(encoder.string_table) :
        Len(encoder.string_table[k]) <= MaxTokenLen

PairToken(key, value) == <<0>> \o key \o <<0>> \o value \o <<0>>
UserToken(uid, username) == <<0>> \o uvarint_to_bytes(U64(uid)) \o <<0>> \o username \o <<0>>

\* the tokens of the tags that are looked up in the table
TagTokens(tags) ==
    LET short == SelectSeq(tags, LAMBDA tg : Len(tg.key) + Len(tg.value) <= MaxTokenLen)
    IN  [k \in 1..Len(short) |-> PairToken(short[k].key, short[k].value)]

\* the tokens a call looks up in the table, in the order of the lookups
Interned(h) ==
    CASE h.op = "string_pair_to_bytes" ->
            TagTokens(<<Tag(h.arg[1], h.arg[2])>>)
      [] h.op = "user_to_bytes" -> <<UserToken(h.arg[1], h.arg[2])>>
      [] h.op \in EntityOps -> TagTokens(h.arg[1].meta.tags)
      [] OTHER -> <<>>

\* the lookups of the calls before call j, since the last reset
RECURSIVE SinceReset(_)
SinceReset(j) ==
    IF j = 1 \/ hist[j - 1].op = "reset" THEN <<>>
    ELSE SinceReset(j - 1) \o Interned(hist[j - 1])

Range(q) == {q[k] : k \in 1..Len(q)}

\* the strings that came new after the first lookup of token t in lookups
NewAfter(t, lookups) ==
    LET first == CHOOSE k \in 1..Len(lookups) :
                    lookups[k] = t /\ \A i \in 1..(k - 1) : lookups[i] # t
    IN  Range(SubSeq(lookups, first + 1, Len(lookups))) \ Range(SubSeq(lookups, 1, first))

\* C14: a string that is in the table is emitted as the unsigned varint of
\* 1 + the number of distinct strings that came new into the table after it
\* since the last reset (lookups that hit change nothing); a string that is
\* not in the table is emitted as the literal.
C14_ReferenceNumber ==
    \A j \in 1..Len(hist) :
        (hist[j].op \in InternOps /\ Interned(hist[j]) # <<>>) =>
            LET t == Interned(hist[j])[1]
            IN  hist[j].ret =
                    IF t \in Range(SinceReset(j))
                    THEN uvarint_to_bytes(U64(1 + Cardinality(NewAfter(t, SinceReset(j)))))
                    ELSE t

\* a node interns atm=no, then oneway=yes; atm=no hits as 2, and after that
\* hit oneway=yes is still 1
C14_Witness ==
    /\ Len(hist) = 3
    /\ hist[1].op = "node_to_bytes" /\ hist[1].arg = <<NodeB>>
    /\ hist[2].op = "string_pair_to_bytes" /\ hist[2].arg = <<S_atm, S_no>>
    /\ hist[2].ret = <<2>>
    /\ hist[3].op = "string_pair_to_bytes" /\ hist[3].arg = <<S_oneway, S_yes>>
    /\ hist[3].ret = <<1>>

\* the meta block of the first entity encoded by a fresh encoder, as stated:
\* the version, and with an author the timestamp, the changeset and the user
MetaBlock(meta) ==
    IF meta.version = 0 THEN <<0>>
    ELSE IF meta.author = None THEN uvarint_to_bytes(U64(meta.version)) \o <<0>>
    ELSE uvarint_to_bytes(U64(meta.version))
         \o varint_to_bytes(I64(meta.author[1].created))
         \o varint_to_bytes(I64(meta.author[1].change_set))
         \o UserToken(meta.author[1].uid, meta.author[1].user)

\* C15: the meta block of a node, way or relation, which follows the id, is
\* 0x00 without a version, the version and 0x00 without an author, and with
\* both the version, the timestamp delta, the changeset delta and the user
\* token.
C15_MetaBlock ==
    (hist # <<>> /\ hist[1].op \in EntityOps) =>
        LET from == decode_signed(hist[1].ret, 1).next
            block == MetaBlock(hist[1].arg[1].meta)
        IN  SubSeq(hist[1].ret, from, from + Len(block) - 1) = block

RoleToken(member) == <<0>> \o member_type(member) \o member.role \o <<0>>

\* whether the sequence part occurs in the sequence q
Occurs(part, q) ==
    \E k \in 1..(Len(q) - Len(part) + 1) : SubSeq(q, k, k + Len(part) - 1) = part

\* C16: the role token 0x00 type_digit role 0x00 of every relation member goes
\* through the string reference table: once a relation is encoded its role
\* tokens are in the table, and a relation encoded after it in the same block
\* does not hold the literal of a combination of kind and role seen before.
C16_RoleInterned ==
    \A j \in 1..Len(hist) :
        hist[j].op = "relation_to_bytes" =>
            LET members == hist[j].arg[1].members
            IN  /\ j = Len(hist) =>
                      \A k \in 1..Len(members) :
                          RoleToken(members[k]) \in Range(encoder.string_table)
                /\ (j > 1 /\ hist[j - 1].op = "relation_to_bytes") =>
                      \A k \in 1..Len(members), i \in 1..Len(hist[j - 1].arg[1].members) :
                          members[k] = hist[j - 1].arg[1].members[i] =>
                              ~Occurs(RoleToken(members[k]), hist[j].ret)

(***************************************************************************)
(* The running values of the delta categories                              *)
(***************************************************************************)
\* the signed varints of the refs, each as the difference to the one before
RECURSIVE RefDeltas(_, _, _)
RefDeltas(prev, refs, k) ==
    IF k > Len(refs) THEN <<>>
    ELSE varint_to_bytes(I64(refs[k] - prev)) \o RefDeltas(refs[k], refs, k + 1)

\* the last ref of the ways encoded before call j since the last reset
RECURSIVE PrevRef(_)
PrevRef(j) ==
    IF j = 1 \/ hist[j - 1].op = "reset" THEN 0
    ELSE IF hist[j - 1].op = "way_to_bytes" /\ hist[j - 1].arg[1].refs # <<>>
    THEN Last(hist[j - 1].arg[1].refs)
    ELSE PrevRef(j - 1)

\* the ref section of a way body: what follows the id, the version and 0x00
RefSection(body, way, section) ==
    LET from == decode_signed(body, 1).next
                + Len(uvarint_to_bytes(U64(way.meta.version))) + 1
        framed == uvarint_to_bytes(U64(Len(section))) \o section
    IN  SubSeq(body, from, from + Len(framed) - 1) = framed

\* C17: every ref of a way is written as the signed varint of its difference
\* to the ref encoded before it, which for the first ref of a way is the last
\* ref of the way with refs before it in the block, and 0 after a reset; the
\* section is preceded by the unsigned varint of its length.  The way with
\* id 64 and refs 64, 65 has the section 80 01 02 on a fresh encoder.
C17_WayRefCarry ==
    /\ \A j \in 1..Len(hist) :
          hist[j].op = "way_to_bytes" =>
             RefSection(hist[j].ret, hist[j].arg[1],
                        RefDeltas(PrevRef(j), hist[j].arg[1].refs, 1))
    /\ (hist # <<>> /\ hist[1].op = "way_to_bytes" /\ hist[1].arg = <<WayA>>) =>
          RefSection(hist[1].ret, WayA, <<128, 1, 2>>)
    /\ (pc = "way_len" /\ idx = 1) =>
          RefSection(bytes, osm.ways[1], RefDeltas(0, osm.ways[1].refs, 1))
    /\ (pc = "way_len" /\ idx = 2) =>
          RefSection(bytes, osm.ways[2],
                     RefDeltas(IF osm.ways[1].refs # <<>> THEN Last(osm.ways[1].refs) ELSE 0,
                               osm.ways[2].refs, 1))

\* refs 64, 65, then a way without refs, then refs 65, 3: the deltas 0 and -62
C17_Witness ==
    /\ Len(hist) = 3
    /\ hist[1].op = "way_to_bytes" /\ hist[1].arg = <<WayA>>
    /\ hist[2].op = "way_to_bytes" /\ hist[2].arg = <<WayC>>
    /\ hist[3].op = "way_to_bytes" /\ hist[3].arg = <<WayB>>
    /\ RefSection(hist[3].ret, WayB, <<0, 123>>)

\* the category of a relation member's id
MemberCategory(member) ==
    CASE member.kind = "Node" -> "RelNodeRef"
      [] member.kind = "Way" -> "RelWayRef"
      [] member.kind = "Relation" -> "RelRelRef"

\* the values a call encodes in category c, in the order of the encoding
Encoded(h, c) ==
    CASE h.op = "node_to_bytes" ->
            (CASE c = "Id" -> <<h.arg[1].id>>
               [] c = "Lat" -> <<h.arg[1].coordinate.lat>>
               [] c = "Lon" -> <<h.arg[1].coordinate.lon>>
               [] OTHER -> <<>>)
      [] h.op = "way_to_bytes" ->
            (CASE c = "Id" -> <<h.arg[1].id>>
               [] c = "WayRef" -> h.arg[1].refs
               [] OTHER -> <<>>)
      [] h.op = "relation_to_bytes" ->
            (IF c = "Id" THEN <<h.arg[1].id>>
             ELSE LET own == SelectSeq(h.arg[1].members, LAMBDA mb : MemberCategory(mb) = c)
                  IN  [k \in 1..Len(own) |-> own[k].id])
      [] OTHER -> <<>>

\* the running value of category c after the first j calls
RECURSIVE Running(_, _)
Running(c, j) ==
    IF j = 0 \/ hist[j].op = "reset" THEN 0
    ELSE IF Encoded(hist[j], c) # <<>> THEN Last(Encoded(hist[j], c))
    ELSE Running(c, j - 1)

\* the member section as stated: every id as the difference to the last
\* member of its own kind (prev: category -> value), with its role token
RECURSIVE MemberDeltas(_, _, _)
MemberDeltas(prev, members, k) ==
    IF k > Len(members) THEN <<>>
    ELSE LET c == MemberCategory(members[k])
         IN  varint_to_bytes(I64(members[k].id - prev[c])) \o RoleToken(members[k])
             \o MemberDeltas([prev EXCEPT ![c] = members[k].id], members, k + 1)

\* C18: an encode changes the running value of its own category only: after
\* any calls every category holds the last value encoded in it since the last
\* reset (a node: Id, Lat, Lon; a way: Id, WayRef; a relation: Id and the
\* category of each member's kind), and the members of a relation are each
\* delta-coded against the last member of their own kind.
C18_CategoriesIndependent ==
    writes = 0 =>
        /\ \A c \in Delta : encoder.delta[c] = I64(Running(c, Len(hist)))
        /\ \A j \in 1..Len(hist) :
              hist[j].op = "relation_to_bytes" =>
                  Occurs(MemberDeltas([c \in Delta |-> Running(c, j - 1)],
                                      hist[j].arg[1].members, 1),
                         hist[j].ret)

\* a way, a node, then node, way, relation and node members interleaved: the
\* second node member is coded against the first (6 - 4), not against the
\* relation member before it, and WayRef, Lat and Lon are as they were
C18_Witness ==
    /\ Len(hist) = 3
    /\ hist[1].op = "way_to_bytes" /\ hist[1].arg = <<WayA>>
    /\ hist[2].op = "node_to_bytes" /\ hist[2].arg = <<NodeB>>
    /\ hist[3].op = "relation_to_bytes" /\ hist[3].arg = <<RelationB>>
    /\ Occurs(<<128, 1, 0, 50, 0, 4, 0, 48>> \o S_outer \o <<0>>, hist[3].ret)
    /\ encoder.delta["RelNodeRef"] = I64(6)
    /\ encoder.delta["RelWayRef"] = I64(9)
    /\ encoder.delta["WayRef"] = I64(65)
    /\ encoder.delta["Lat"] = I64(-64)

\* the longitude and latitude deltas written in a node body: the signed
\* varints that follow the id, the version and 0x00
WrittenCoordinate(body, node) ==
    LET from == decode_signed(body, 1).next
                + Len(uvarint_to_bytes(U64(node.meta.version))) + 1
        lon == decode_signed(body, from)
        lat == decode_signed(body, lon.next)
    IN  [lon |-> lon.val, lat |-> lat.val]

\* C19: for two consecutive nodes of a block the deltas written for longitude
\* and latitude are exactly the differences to the node before: the previous
\* value plus the written delta is the node's coordinate.
C19_ExactCoordinateDelta ==
    \A j \in 2..Len(hist) :
        (hist[j].op = "node_to_bytes" /\ hist[j - 1].op = "node_to_bytes") =>
            LET prev == hist[j - 1].arg[1].coordinate
                cur == hist[j].arg[1].coordinate
                written == WrittenCoordinate(hist[j].ret, hist[j].arg[1])
            IN  /\ Add64(I64(prev.lon), written.lon) = I64(cur.lon)
                /\ Add64(I64(prev.lat), written.lat) = I64(cur.lat)

(***************************************************************************)
(* write() called again on a writer that has written before, whether the   *)
(* call before returned Ok or an error                                     *)
(***************************************************************************)
MaxCalls == 2

AgainMaps ==
    {Osm(b, ns, ws, rs) :
        b \in {None, Some(BoundaryA)},
        ns \in SeqsUpTo({NodeA1, NodeB}, 1),
        ws \in SeqsUpTo({WayA}, 1),
        rs \in SeqsUpTo({RelationA}, 1)}

WriteAgain(m) ==
    /\ pc \in {"idle", "done", "failed"}
    /\ hist = <<>>
    /\ writes < MaxCalls
    /\ pc' = "reset_header"
    /\ osm' = m
    /\ start' = Len(inner)
    /\ writes' = writes + 1
    /\ idx' = 0
    /\ bytes' = <<>>
    /\ arg' = NoCall
    /\ UNCHANGED <<encoder, inner, hist, res>>

NextAgain ==
    \/ \E m \in AgainMaps : WriteAgain(m)
    \/ NextOk
    \/ \E n \in Partial : WriteAll_Err(n)

SpecAgain == Init /\ [][NextAgain]_vars

\* C20: the bytes a write(m) call sends depend on m only: whatever calls were
\* made on the writer before, a call that returns has sent the bytes a fresh
\* writer sends for m, and the encoder is fresh at the start of every block.
C20_WriteIndependent ==
    /\ pc = "done" => Sent = Output(osm)
    /\ pc \in {"header", "node", "way", "relation"} /\ idx <= 1 =>
          encoder = O5mEncoder_new

\* a second write() of a map with a tagged node, after a write() of a map
\* with a relation, whose tag and deltas the encoder held when it returned
C20_Witness ==
    /\ writes = 2 /\ pc = "done"
    /\ osm = Osm(None, <<NodeB>>, <<WayA>>, <<RelationA>>)
    /\ start > 0
    /\ SubSeq(inner, 1, start) = Output(Osm(None, <<>>, <<>>, <<RelationA>>))
    /\ Sent = Output(osm)

(***************************************************************************)
(* The length field of the ref section and of the member section           *)
(***************************************************************************)
\* a body whose part after the id, the version and 0x00 is a length field of
\* at least one byte that holds the length of the section, the section, and
\* the tag tokens
HasLengthField(body, meta, section, tagTokens) ==
    LET from == decode_signed(body, 1).next
                + Len(uvarint_to_bytes(U64(meta.version))) + 1
        len == decode_unsigned(body, from)
    IN  /\ len.ok
        /\ len.next > from
        /\ len.val = U64(Len(section))
        /\ SubSeq(body, len.next, Len(body)) = section \o tagTokens

\* C21: the body of every way and of every relation, also without refs or
\* members, has between the meta block and the tags a length field that
\* decodes to the byte length of the ref or member section after it, with the
\* tag tokens behind that section.
C21_LengthField ==
    (hist # <<>> /\ hist[1].op \in {"way_to_bytes", "relation_to_bytes"}) =>
        LET e == hist[1].arg[1]
        IN  HasLengthField(hist[1].ret, e.meta,
                IF hist[1].op = "way_to_bytes" THEN RefDeltas(0, e.refs, 1)
                ELSE MemberDeltas([c \in Delta |-> 0], e.members, 1),
                tags_to_bytes(O5mEncoder_new, e.meta.tags, 1).bytes)

====
